---- MODULE Spec2Model ----
(***************************************************************************)
(* Bootstrap of the themis bridge daemon (bridge/cmd/root.go): the root    *)
(* command's hooks, the resolution of the flags into the process-wide      *)
(* viper store, and the background metrics HTTP server.                    *)
(*                                                                         *)
(* Strings are sequences of tokens: "/" is the path separator, "." the dot *)
(* of "." and "..", any other token a run of ordinary characters; <<>> is  *)
(* the empty string.                                                       *)
(*                                                                         *)
(* Library behaviour the code relies on is modelled as the libraries       *)
(* document it: cobra's Command.execute (PersistentPreRun is inherited by  *)
(* subcommands, PostRunE is not, and a failing body returns before any     *)
(* post-run hook), net/http's Server.ListenAndServe and Server.Shutdown,   *)
(* viper's Set/Get precedence and path/filepath's Join.                    *)
(***************************************************************************)
EXTENDS Integers, Sequences, FiniteSets, TLC

\* ------------------------------------------------------------------ bounds
\* longest --home value supplied on the command line, in tokens
MaxLen == 2
\* most flags supplied on one command line
MaxFlags == 2
\* most keys that carry an environment/config-file value
MaxEnv == 1
\* most connections the metrics server holds at once
MaxConns == 1
\* most calls of the post-run hook in the hook-level specification
MaxShutdownCalls == 2
\* most calls of initTendermintViperConfig in the resolve-level specification
MaxResolveCalls == 2

\* ------------------------------------------------------------ flag names
bridgeDBFlag == "bridge-db"
bridgeSqliteDBFlag == "bridge-sqlite-db"
metricsServerFlag == "metrics-server-addr"
rpcServerFlag == "rpc-server-addr"
metisChainIDFlag == "metis-chain-id"
logsTypeFlag == "logs-type"
TendermintNodeFlag == "node"
HomeFlag == "home"
WithThemisConfigFlag == "with-themis-config"

\* every key the bootstrap names
AllFlags ==
  { TendermintNodeFlag, HomeFlag, WithThemisConfigFlag, bridgeDBFlag,
    bridgeSqliteDBFlag, metisChainIDFlag, logsTypeFlag, metricsServerFlag,
    rpcServerFlag }

\* the default each flag is registered with (third argument of String/StringP)
DefaultValue(k) ==
  CASE k = TendermintNodeFlag -> <<"tcp:node">>
    [] k = HomeFlag -> <<"/", "themisd">>
    [] k = bridgeDBFlag -> <<>>
    [] k = metisChainIDFlag -> <<"chain">>
    [] k = logsTypeFlag -> <<"json">>
    [] k = metricsServerFlag -> <<":2112">>
    [] k = rpcServerFlag -> <<":8646">>
    [] OTHER -> <<>>

\* the flags DecorateWithBridgeRootFlags registers on the command
DecoratedFlags ==
  { TendermintNodeFlag, HomeFlag, bridgeDBFlag, metisChainIDFlag,
    logsTypeFlag, metricsServerFlag, rpcServerFlag }

\* the flags DecorateWithBridgeRootFlags binds with BindPFlag to the viper it
\* is handed, taken to be the global one that AdjustBridgeDBValue writes
BoundFlags == { TendermintNodeFlag, HomeFlag, bridgeDBFlag, metisChainIDFlag }

\* ------------------------------------------------------- command identity
\* rootCmd.Use, version.Cmd.Use and the Use of any other subcommand
RootUse == "themis-bridge"
VersionUse == "version"
OtherUse == "start"
Uses == { RootUse, VersionUse, OtherUse }

\* ----------------------------------------------------------- path/filepath
Dot == <<".">>
DotDot == <<".", ".">>

RECURSIVE SplitFrom(_, _, _)
\* the components of s after the components acc and the unfinished one cur
SplitFrom(s, cur, acc) ==
  IF s = <<>> THEN Append(acc, cur)
  ELSE IF Head(s) = "/" THEN SplitFrom(Tail(s), <<>>, Append(acc, cur))
  ELSE SplitFrom(Tail(s), Append(cur, Head(s)), acc)

\* the components of a path, separated by "/"
Split(s) == SplitFrom(s, <<>>, <<>>)

RECURSIVE Walk(_, _, _)
\* filepath.Clean's pass over the components: drops empty and "." ones and
\* resolves ".." against the component before it
Walk(comps, stack, rooted) ==
  IF comps = <<>> THEN stack
  ELSE LET c == Head(comps)
           rest == Tail(comps)
       IN IF c = <<>> \/ c = Dot THEN Walk(rest, stack, rooted)
          ELSE IF c = DotDot
            THEN IF stack # <<>> /\ stack[Len(stack)] # DotDot
                   THEN Walk(rest, SubSeq(stack, 1, Len(stack) - 1), rooted)
                 ELSE IF rooted THEN Walk(rest, stack, rooted)
                 ELSE Walk(rest, Append(stack, c), rooted)
          ELSE Walk(rest, Append(stack, c), rooted)

RECURSIVE JoinSep(_)
\* strings.Join(elems, "/")
JoinSep(elems) ==
  IF elems = <<>> THEN <<>>
  ELSE IF Len(elems) = 1 THEN elems[1]
  ELSE elems[1] \o <<"/">> \o JoinSep(Tail(elems))

\* filepath.Clean
Clean(p) ==
  IF p = <<>> THEN Dot
  ELSE LET rooted == p[1] = "/"
           out == JoinSep(Walk(Split(p), <<>>, rooted))
           r == IF rooted THEN <<"/">> \o out ELSE out
       IN IF r = <<>> THEN Dot ELSE r

\* filepath.Join: the non-empty elements joined by "/" and cleaned
FilepathJoin(elems) ==
  LET ne == SelectSeq(elems, LAMBDA e : e # <<>>)
  IN IF ne = <<>> THEN <<>> ELSE Clean(JoinSep(ne))

\* ------------------------------------------------------------------ inputs
PathTokens == { "/", ".", "d" }

RECURSIVE SeqsUpTo(_, _)
SeqsUpTo(S, n) ==
  IF n = 0 THEN { <<>> }
  ELSE LET shorter == SeqsUpTo(S, n - 1)
       IN shorter \cup { Append(s, t) : s \in shorter, t \in S }

\* values a --home flag takes
HomeValues == SeqsUpTo(PathTokens, MaxLen)
\* a non-empty value given by the user
Custom == <<"/", "custom">>
\* the value a key has in the environment or the config file
EnvValue == <<"env">>

\* flags a command line supplies, one of each kind besides the two path
\* flags and --home: bound to viper and written (metis-chain-id), written
\* only (logs-type), registered only (metrics-server-addr)
SuppliedFlags ==
  { HomeFlag, bridgeDBFlag, bridgeSqliteDBFlag, metisChainIDFlag,
    logsTypeFlag, metricsServerFlag }

\* keys with an environment/config-file value: one that AdjustBridgeDBValue
\* writes (metis-chain-id) and one that it does not (metrics-server-addr)
EnvKeys == { metisChainIDFlag, metricsServerFlag }

\* the values each flag takes on a command line
ArgValues ==
  [k \in SuppliedFlags |->
     IF k = HomeFlag THEN HomeValues
     ELSE IF k = bridgeDBFlag THEN { <<>>, Custom }
     ELSE { Custom }]

\* the values each key takes in the environment or the config file
EnvValues == [k \in EnvKeys |-> { EnvValue }]

\* the assignments of a value of V[k] to each k of at most n keys of V
Assignments(V, n) ==
  UNION { { f \in [D -> UNION { V[k] : k \in D }] : \A k \in D : f[k] \in V[k] }
          : D \in { D \in SUBSET DOMAIN V : Cardinality(D) <= n } }

\* ------------------------------------------------------------------- state
VARIABLES
  cmdUse,        \* Use of the invoked command
  runnable,      \* the invoked command has a Run/RunE body (rootCmd is given
                 \* none in root.go, so both cases are kept for it)
  args,          \* flags given on the command line: flag name -> value
  env,           \* environment/config-file values viper knows: key -> value
  addrBound,     \* the metrics address is bound by another process
  configBad,     \* the persisted node configuration file is missing or broken
  bindFails,     \* flags whose v.BindPFlag returns an error
  registered,    \* flags registered on the command's persistent flag set
  bound,         \* flags bound to viper by BindPFlag
  bindLogged,    \* flags whose BindPFlag error loggerInstance.Error reported
  override,      \* viper's override layer, written by viper.Set
  configLoaded,  \* helper.InitThemisConfig has run
  loadRet,       \* what helper.InitThemisConfig reported: "none", "nil", "err"
  resolveRet,    \* what initTendermintViperConfig handed to the pre-run hook
  resolveCalls,  \* number of calls of initTendermintViperConfig
  mainPc,        \* position of the main thread
  execRet,       \* what rootCmd.Execute returned: "none", "nil" or "err"
  bodyRet,       \* what the body returned: "none", "nil" or "err"
  shutdownRet,   \* results of the metricsServer.Shutdown calls, in order
  created,       \* number of times metricsServer was constructed
  routes,        \* number of http.Handle("/metrics") registrations
  spawned,       \* number of listener goroutines started
  inShutdown,    \* metricsServer.inShutdown
  listening,     \* metricsServer holds an open listener
  active,        \* connections of metricsServer that are not idle
  lpc,           \* position of the listener goroutine
  lerr,          \* what ListenAndServe returned
  exited,        \* the process has terminated
  exitCode,      \* its exit code
  exitedBy       \* the thread that terminated it

inputs == <<cmdUse, runnable, args, env, addrBound, configBad, bindFails>>
flagset == <<registered, bound, bindLogged>>
store == <<override, configLoaded, loadRet, resolveRet, resolveCalls>>
server == <<created, routes, spawned, inShutdown, listening, active>>
listener == <<lpc, lerr>>
process == <<exited, exitCode, exitedBy>>
vars ==
  <<inputs, flagset, store, mainPc, execRet, bodyRet, shutdownRet, server,
    listener, process>>

\* the empty mapping
Empty == [k \in {} |-> <<>>]

\* the process before BridgeCommands is called
Construction ==
  /\ registered = {}
  /\ bound = {}
  /\ bindLogged = {}
  /\ override = Empty
  /\ configLoaded = FALSE
  /\ loadRet = "none"
  /\ resolveRet = "none"
  /\ resolveCalls = 0
  /\ mainPc = "decorate"
  /\ execRet = "none"
  /\ bodyRet = "none"
  /\ shutdownRet = <<>>
  /\ created = 0
  /\ routes = 0
  /\ spawned = 0
  /\ inShutdown = FALSE
  /\ listening = FALSE
  /\ active = 0
  /\ lpc = "none"
  /\ lerr = "none"
  /\ exited = FALSE
  /\ exitCode = 0
  /\ exitedBy = "none"

\* command lines of the runs that vary something other than the flags: no
\* flag, or the one flag that is not registered
FewArgs == { Empty, [k \in { bridgeSqliteDBFlag } |-> Custom] }

\* BindPFlag fails only for a nil flag, and every flag it is given here was
\* registered the line before: no bind fails. The configuration file is
\* missing or broken only in runs with few flags.
Init ==
  /\ cmdUse \in Uses
  /\ runnable \in BOOLEAN
  /\ (cmdUse # RootUse => runnable)
  /\ args \in Assignments(ArgValues, MaxFlags)
  /\ env \in Assignments(EnvValues, MaxEnv)
  /\ addrBound \in BOOLEAN
  /\ configBad \in BOOLEAN
  /\ (configBad => args \in FewArgs /\ env = Empty)
  /\ bindFails = {}
  /\ Construction

\* ------------------------------------------------------------- viper store
\* viper.IsSet: an override, a changed bound flag, an environment/config-file
\* value, or the default of a bound flag
StoreHas(k) == k \in DOMAIN override \/ k \in DOMAIN env \/ k \in bound

\* viper.Get: override > changed flag > environment/config file > flag default
StoreGet(k) ==
  IF k \in DOMAIN override THEN override[k]
  ELSE IF k \in bound /\ k \in DOMAIN args THEN args[k]
  ELSE IF k \in DOMAIN env THEN env[k]
  ELSE DefaultValue(k)

\* cmd.Flags().GetString(k): the flag's current value; an undefined flag
\* yields "" and an error, which the caller drops
GetString(k) ==
  IF k \in registered
    THEN IF k \in DOMAIN args THEN args[k] ELSE DefaultValue(k)
  ELSE <<>>

\* the default derived from the bridge-db value viper already holds, when it
\* holds one, instead of the home directory
BridgeDBPath_FromStored(bridgeDBValue, homeValue) ==
  IF bridgeDBValue = <<>>
    THEN FilepathJoin(<<IF bridgeDBFlag \in DOMAIN override
                          THEN override[bridgeDBFlag] ELSE homeValue,
                        <<"bridge">>, <<"storage">>>>)
  ELSE bridgeDBValue

\* the default path built by plain concatenation instead of filepath.Join
BridgeDBPath_Concat(bridgeDBValue, homeValue) ==
  IF bridgeDBValue = <<>>
    THEN homeValue \o <<"/", "bridge", "/", "storage">>
  ELSE bridgeDBValue

\* the bridge-db value AdjustBridgeDBValue stores
BridgeDBPath(bridgeDBValue, homeValue) ==
  IF bridgeDBValue = <<>>
    THEN FilepathJoin(<<homeValue, <<"bridge">>, <<"storage">>>>)
  ELSE bridgeDBValue

\* the bridge-sqlite-db value AdjustBridgeDBValue stores
BridgeSqlitePath(bridgeSqliteDBValue, homeValue) ==
  IF bridgeSqliteDBValue = <<>>
    THEN FilepathJoin(<<homeValue, <<"bridge">>, <<"sqlite">>>>)
  ELSE bridgeSqliteDBValue

\* the write of logs-type left out
WrittenKeys_NoLogsType ==
  { TendermintNodeFlag, HomeFlag, WithThemisConfigFlag, bridgeDBFlag,
    bridgeSqliteDBFlag, metisChainIDFlag }

\* the keys AdjustBridgeDBValue writes with viper.Set
WrittenKeys ==
  { TendermintNodeFlag, HomeFlag, WithThemisConfigFlag, bridgeDBFlag,
    bridgeSqliteDBFlag, metisChainIDFlag, logsTypeFlag }

\* the value AdjustBridgeDBValue writes under key k
AdjustedValue(k) ==
  CASE k = bridgeDBFlag ->
         BridgeDBPath(GetString(bridgeDBFlag), GetString(HomeFlag))
    [] k = bridgeSqliteDBFlag ->
         BridgeSqlitePath(GetString(bridgeSqliteDBFlag), GetString(HomeFlag))
    [] OTHER -> GetString(k)

\* AdjustBridgeDBValue: viper.Set of every written key
AdjustBridgeDBValue ==
  override' =
    [k \in DOMAIN override \cup WrittenKeys |->
       IF k \in WrittenKeys THEN AdjustedValue(k) ELSE override[k]]

\* helper.InitThemisConfig: loads the node configuration file under the home
\* directory and reports a failure to its caller
InitThemisConfig(bad) == IF bad THEN "err" ELSE "nil"

\* initTendermintViperConfig: AdjustBridgeDBValue, then helper.InitThemisConfig
\* called as a statement; the function itself returns nothing
initTendermintViperConfig ==
  /\ AdjustBridgeDBValue
  /\ configLoaded' = TRUE
  /\ loadRet' = InitThemisConfig(configBad)
  /\ resolveRet' = "void"
  /\ resolveCalls' = resolveCalls + 1

\* an initMetrics that registers /metrics and starts the goroutine once for
\* the server variable and once more for the server it constructs
initMetrics_StartsTwice ==
  /\ created' = created + 1
  /\ inShutdown' = FALSE
  /\ listening' = FALSE
  /\ active' = 0
  /\ routes' = routes + 2
  /\ spawned' = spawned + 2
  /\ lpc' = "spawned"
  /\ lerr' = "none"

\* initMetrics: construct the server, register /metrics, start the goroutine
initMetrics ==
  /\ created' = created + 1
  /\ inShutdown' = FALSE
  /\ listening' = FALSE
  /\ active' = 0
  /\ routes' = routes + 1
  /\ spawned' = spawned + 1
  /\ lpc' = "spawned"
  /\ lerr' = "none"

\* the gate comparing against the wrong command's Use
SkipInit_WrongCommand(use) == use = RootUse

\* the gate of PersistentPreRun: the invoked command is version.Cmd
SkipInit(use) == use = VersionUse

\* --------------------------------------------------------- the main thread
\* the statements of DecorateWithBridgeRootFlags, in order
DecorateSteps ==
  << <<"register", TendermintNodeFlag>>, <<"bind", TendermintNodeFlag>>,
     <<"register", HomeFlag>>, <<"bind", HomeFlag>>,
     <<"register", bridgeDBFlag>>, <<"bind", bridgeDBFlag>>,
     <<"register", metisChainIDFlag>>, <<"register", logsTypeFlag>>,
     <<"register", metricsServerFlag>>, <<"register", rpcServerFlag>>,
     <<"bind", metisChainIDFlag>> >>

\* the flag set before DecorateWithBridgeRootFlags
NoFlags == [registered |-> {}, bound |-> {}, logged |-> {}]

RECURSIVE RunDecorate_Aborts(_, _, _)
\* a decoration that returns at the first BindPFlag error
RunDecorate_Aborts(steps, fails, acc) ==
  IF steps = <<>> THEN acc
  ELSE LET k == Head(steps)[2]
       IN IF Head(steps)[1] = "register"
            THEN RunDecorate_Aborts(Tail(steps), fails,
                   [acc EXCEPT !.registered = @ \cup { k }])
          ELSE IF k \in fails
            THEN [acc EXCEPT !.logged = @ \cup { k }]
          ELSE RunDecorate_Aborts(Tail(steps), fails,
                 [acc EXCEPT !.bound = @ \cup { k }])

RECURSIVE RunDecorate(_, _, _)
\* DecorateWithBridgeRootFlags from statement steps[1] on: a BindPFlag error
\* is logged and the next statement runs
RunDecorate(steps, fails, acc) ==
  IF steps = <<>> THEN acc
  ELSE LET k == Head(steps)[2]
       IN IF Head(steps)[1] = "register"
            THEN RunDecorate(Tail(steps), fails,
                   [acc EXCEPT !.registered = @ \cup { k }])
          ELSE IF k \in fails
            THEN RunDecorate(Tail(steps), fails,
                   [acc EXCEPT !.logged = @ \cup { k }])
          ELSE RunDecorate(Tail(steps), fails,
                 [acc EXCEPT !.bound = @ \cup { k }])

\* BridgeCommands: DecorateWithBridgeRootFlags registers and binds the flags
\* and the command is returned to the caller, who executes it
DecorateWithBridgeRootFlags ==
  /\ ~exited
  /\ mainPc = "decorate"
  /\ LET done == RunDecorate(DecorateSteps, bindFails, NoFlags)
     IN /\ registered' = done.registered
        /\ bound' = done.bound
        /\ bindLogged' = done.logged
  /\ mainPc' = "parse"
  /\ UNCHANGED <<inputs, store, execRet, bodyRet,
                 shutdownRet, server, listener, process>>

\* Execute up to the hooks: a flag that is not registered is a parse error,
\* a command without a body prints its help; no hook runs in either case
ParseFlags ==
  /\ ~exited
  /\ mainPc = "parse"
  /\ IF ~(DOMAIN args \subseteq registered)
       THEN mainPc' = "return" /\ execRet' = "err"
     ELSE IF ~runnable
       THEN mainPc' = "return" /\ execRet' = "nil"
     ELSE mainPc' = "preRun" /\ execRet' = execRet
  /\ UNCHANGED <<inputs, flagset, store, bodyRet,
                 shutdownRet, server, listener, process>>

\* the calls of PersistentPreRun in the order of a hook that starts the
\* metrics server before it resolves the configuration
PreRunSteps_MetricsFirst == <<"metrics", "config">>

\* the calls PersistentPreRun makes for a command that is not version.Cmd
PreRunSteps == <<"config", "metrics">>

\* one call of PersistentPreRun
RunStep(step) ==
  IF step = "config"
    THEN initTendermintViperConfig /\ UNCHANGED <<server, listener>>
  ELSE initMetrics /\ UNCHANGED store

\* rootCmd.PersistentPreRun, run for the root command and every subcommand:
\* the gate and the first call
PersistentPreRun ==
  /\ ~exited
  /\ mainPc = "preRun"
  /\ IF SkipInit(cmdUse)
       THEN mainPc' = "body" /\ UNCHANGED <<store, server, listener>>
     ELSE mainPc' = "preRun2" /\ RunStep(PreRunSteps[1])
  /\ UNCHANGED <<inputs, flagset, execRet, bodyRet, shutdownRet, process>>

\* rootCmd.PersistentPreRun: the second call, and the hook returns
PersistentPreRunRest ==
  /\ ~exited
  /\ mainPc = "preRun2"
  /\ RunStep(PreRunSteps[2])
  /\ mainPc' = "body"
  /\ UNCHANGED <<inputs, flagset, execRet, bodyRet, shutdownRet, process>>

\* the body of the invoked command returns; a failing body ends Execute, and
\* PostRunE is the invoked command's own hook, so only rootCmd has it
BodyReturn ==
  /\ ~exited
  /\ mainPc = "body"
  /\ \E failed \in BOOLEAN :
       /\ bodyRet' = IF failed THEN "err" ELSE "nil"
       /\ IF failed THEN mainPc' = "return" /\ execRet' = "err"
          ELSE IF cmdUse = RootUse THEN mainPc' = "postRun" /\ execRet' = execRet
          ELSE mainPc' = "return" /\ execRet' = "nil"
  /\ UNCHANGED <<inputs, flagset, store, shutdownRet,
                 server, listener, process>>

\* rootCmd.PostRunE, first half of metricsServer.Shutdown: mark the server as
\* shutting down and close its listener
ShutdownBegin ==
  /\ ~exited
  /\ mainPc = "postRun"
  /\ inShutdown' = TRUE
  /\ listening' = FALSE
  /\ mainPc' = "draining"
  /\ UNCHANGED <<inputs, flagset, store, execRet, bodyRet,
                 shutdownRet, created, routes, spawned, active, listener,
                 process>>

\* a Shutdown that reports the deadline whether or not connections remain
ShutdownResult_AlwaysDeadline(conns) == "timeout"

\* the result of Shutdown: nil once no connection is active, the context's
\* error when the 10s deadline passes first
ShutdownResult(conns) == IF conns = 0 THEN "nil" ELSE "timeout"

\* a PostRunE that calls Shutdown and returns nil whatever it returned
ShutdownReturn_DropsError ==
  /\ ~exited
  /\ mainPc = "draining"
  /\ shutdownRet' = Append(shutdownRet, ShutdownResult(active))
  /\ execRet' = "nil"
  /\ mainPc' = "return"
  /\ UNCHANGED <<inputs, flagset, store, bodyRet, server, listener, process>>

\* a Shutdown that waits for the connections without minding its context
ShutdownReturn_WaitsForDrain ==
  /\ ~exited
  /\ mainPc = "draining"
  /\ active = 0
  /\ shutdownRet' = Append(shutdownRet, "nil")
  /\ execRet' = "nil"
  /\ mainPc' = "return"
  /\ UNCHANGED <<inputs, flagset, store, bodyRet, server, listener, process>>

\* rootCmd.PostRunE, second half: Shutdown returns and PostRunE returns its
\* result
ShutdownReturn ==
  /\ ~exited
  /\ mainPc = "draining"
  /\ shutdownRet' = Append(shutdownRet, ShutdownResult(active))
  /\ execRet' = IF ShutdownResult(active) = "nil" THEN "nil" ELSE "err"
  /\ mainPc' = "return"
  /\ UNCHANGED <<inputs, flagset, store, bodyRet, server,
                 listener, process>>

\* the caller of Execute ends the process: 0 on nil, 1 on an error
MainReturn ==
  /\ ~exited
  /\ mainPc = "return"
  /\ exited' = TRUE
  /\ exitCode' = IF execRet = "err" THEN 1 ELSE 0
  /\ exitedBy' = "main"
  /\ mainPc' = "exited"
  /\ UNCHANGED <<inputs, flagset, store, execRet, bodyRet,
                 shutdownRet, server, listener>>

\* ------------------------------------------------- the listener goroutine
\* a ListenAndServe that listens without looking at the shutdown mark
ListenAndServe_NoShutdownCheck ==
  /\ ~exited
  /\ lpc = "spawned"
  /\ IF addrBound
       THEN lerr' = "bind" /\ lpc' = "returned" /\ listening' = listening
     ELSE lerr' = lerr /\ lpc' = "serving" /\ listening' = TRUE
  /\ UNCHANGED <<inputs, flagset, store, mainPc, execRet, bodyRet,
                 shutdownRet, created, routes, spawned, inShutdown, active,
                 process>>

\* a listen that succeeds on an address in use
NetListen_IgnoresInUse(inUse) == "ok"

\* net.Listen on the server's address: fails when the address is in use
NetListen(inUse) == IF inUse THEN "bind" ELSE "ok"

\* metricsServer.ListenAndServe up to net.Listen: ErrServerClosed when the
\* server is already shutting down, the listen error when the bind fails
ListenAndServe ==
  /\ ~exited
  /\ lpc = "spawned"
  /\ IF inShutdown
       THEN lerr' = "closed" /\ lpc' = "returned" /\ listening' = listening
     ELSE IF NetListen(addrBound) # "ok"
       THEN lerr' = NetListen(addrBound) /\ lpc' = "returned"
            /\ listening' = listening
     ELSE lerr' = lerr /\ lpc' = "serving" /\ listening' = TRUE
  /\ UNCHANGED <<inputs, flagset, store, mainPc, execRet,
                 bodyRet, shutdownRet, created, routes, spawned, inShutdown,
                 active, process>>

\* Serve accepts a connection
Accept ==
  /\ ~exited
  /\ lpc = "serving"
  /\ listening
  /\ active < MaxConns
  /\ active' = active + 1
  /\ UNCHANGED <<inputs, flagset, store, mainPc, execRet,
                 bodyRet, shutdownRet, created, routes, spawned, inShutdown,
                 listening, listener, process>>

\* a connection finishes its request
ConnDone ==
  /\ ~exited
  /\ active > 0
  /\ active' = active - 1
  /\ UNCHANGED <<inputs, flagset, store, mainPc, execRet,
                 bodyRet, shutdownRet, created, routes, spawned, inShutdown,
                 listening, listener, process>>

\* Serve returns: ErrServerClosed once the server is shutting down, the
\* accept error otherwise
ServeReturn ==
  /\ ~exited
  /\ lpc = "serving"
  /\ lerr' = IF inShutdown THEN "closed" ELSE "serve"
  /\ listening' = FALSE
  /\ lpc' = "returned"
  /\ UNCHANGED <<inputs, flagset, store, mainPc, execRet,
                 bodyRet, shutdownRet, created, routes, spawned, inShutdown,
                 active, process>>

\* the errors of ListenAndServe the goroutine treats as fatal: err != nil
Fatal(err) == err # "nil"

\* the goroutine tests the error and logs it
ListenerLog ==
  /\ ~exited
  /\ lpc = "returned"
  /\ lpc' = IF Fatal(lerr) THEN "logged" ELSE "done"
  /\ UNCHANGED <<inputs, flagset, store, mainPc, execRet,
                 bodyRet, shutdownRet, server, lerr, process>>

\* os.Exit(1) in the goroutine
ListenerExit ==
  /\ ~exited
  /\ lpc = "logged"
  /\ exited' = TRUE
  /\ exitCode' = 1
  /\ exitedBy' = "listener"
  /\ UNCHANGED <<inputs, flagset, store, mainPc, execRet,
                 bodyRet, shutdownRet, server, listener>>

\* ---------------------------------------------------------- specifications
Next ==
  \/ DecorateWithBridgeRootFlags
  \/ ParseFlags
  \/ PersistentPreRun
  \/ PersistentPreRunRest
  \/ BodyReturn
  \/ ShutdownBegin
  \/ ShutdownReturn
  \/ MainReturn
  \/ ListenAndServe
  \/ Accept
  \/ ConnDone
  \/ ServeReturn
  \/ ListenerLog
  \/ ListenerExit

Spec == Init /\ [][Next]_vars

\* a caller that invokes rootCmd.PostRunE directly once Execute has returned,
\* whatever command ran
PostRunAgain ==
  /\ ~exited
  /\ mainPc = "return"
  /\ Len(shutdownRet) < MaxShutdownCalls
  /\ mainPc' = "postRun"
  /\ UNCHANGED <<inputs, flagset, store, execRet, bodyRet,
                 shutdownRet, server, listener, process>>

NextHooks ==
  \/ DecorateWithBridgeRootFlags
  \/ ParseFlags
  \/ PersistentPreRun
  \/ PersistentPreRunRest
  \/ BodyReturn
  \/ ShutdownBegin
  \/ ShutdownReturn
  \/ PostRunAgain
  \/ MainReturn
  \/ ListenAndServe
  \/ Accept
  \/ ConnDone
  \/ ServeReturn
  \/ ListenerLog
  \/ ListenerExit

\* the hooks driven directly: as Spec, with PostRunE called up to
\* MaxShutdownCalls times
InitHooks ==
  /\ cmdUse \in Uses
  /\ runnable \in BOOLEAN
  /\ (cmdUse # RootUse => runnable)
  /\ args \in FewArgs
  /\ env = Empty
  /\ addrBound \in BOOLEAN
  /\ configBad = FALSE
  /\ bindFails = {}
  /\ Construction

SpecHooks == InitHooks /\ [][NextHooks]_vars

\* the main thread is scheduled: a hook that can take its next step takes
\* it, and the context of Shutdown does expire; nothing is assumed of the
\* listener goroutine or of the connections
SpecMainFair ==
  /\ InitHooks
  /\ [][Next]_vars
  /\ WF_vars(PersistentPreRun)
  /\ WF_vars(PersistentPreRunRest)
  /\ WF_vars(ShutdownBegin)
  /\ WF_vars(ShutdownReturn)

\* a caller that invokes initTendermintViperConfig again after the pre-run
\* hook, with the same flags
ResolveAgain ==
  /\ ~exited
  /\ mainPc = "body"
  /\ configLoaded
  /\ resolveCalls < MaxResolveCalls
  /\ initTendermintViperConfig
  /\ UNCHANGED <<inputs, flagset, mainPc, execRet, bodyRet, shutdownRet,
                 server, listener, process>>

NextResolve ==
  \/ DecorateWithBridgeRootFlags
  \/ ParseFlags
  \/ PersistentPreRun
  \/ PersistentPreRunRest
  \/ ResolveAgain

\* resolve() driven directly: the bootstrap up to the end of the pre-run
\* hook, then initTendermintViperConfig called up to MaxResolveCalls times
SpecResolve == Init /\ [][NextResolve]_vars

\* the decoration with BindPFlag errors injected for any of the bound flags
InitDecorate ==
  /\ cmdUse \in Uses
  /\ runnable \in BOOLEAN
  /\ (cmdUse # RootUse => runnable)
  /\ args \in FewArgs
  /\ env = Empty
  /\ addrBound \in BOOLEAN
  /\ configBad = FALSE
  /\ bindFails \in SUBSET BoundFlags
  /\ Construction

SpecDecorate == InitDecorate /\ [][Next]_vars

\* ------------------------------------------------------------------ claims
\* the exit code the result of Execute stands for
CodeOf(ret) == IF ret = "err" THEN 1 ELSE 0

\* C1: whenever the body of the invoked command has returned and Execute
\* has returned to its caller, the post-run hook has run exactly once and
\* called metricsServer.Shutdown.
C1_PostRunAlwaysShutsDown ==
  (bodyRet # "none" /\ mainPc \in { "return", "exited" })
    => Len(shutdownRet) = 1

\* C2: in a run where the post-run Shutdown is called and the listener had
\* no bind or serve failure, the listener goroutine never calls os.Exit and
\* the exit code is the one the result of Execute stands for.
C2_ListenerExitsOnlyOnFailure ==
  (inShutdown /\ lerr \notin { "bind", "serve" })
    => /\ lpc # "logged"
       /\ exitedBy # "listener"
       /\ (exited => exitCode = CodeOf(execRet))

\* C3: when the invoked command is the version command, no server is
\* constructed, no route registered, no goroutine started and the store is
\* as it was before the pre-run hook.
C3_SentinelSkipsInit ==
  cmdUse = VersionUse
    => /\ override = Empty
       /\ ~configLoaded
       /\ created = 0
       /\ routes = 0
       /\ spawned = 0
       /\ lpc = "none"

\* the version command has been through the pre-run hook and its body
C3_Witness == cmdUse = VersionUse /\ bodyRet # "none" /\ DOMAIN args # {}

\* C4 as stated: with the metrics address bound by another process, the
\* body of a non-sentinel command never starts.
C4_ExitBeforeBody ==
  (addrBound /\ ~SkipInit(cmdUse))
    => (mainPc \notin { "body", "postRun", "draining" } /\ bodyRet = "none")

\* C4 amended: with the metrics address bound by another process the
\* listener never serves; its ListenAndServe can only return an error, and
\* when the goroutine ends the process the exit code is 1, whether or not
\* the body has started.
C4_BoundAddrNeverServes ==
  addrBound
    => /\ ~listening
       /\ lpc # "serving"
       /\ (lpc \in { "returned", "logged" } => lerr \in { "bind", "closed" })
       /\ (exitedBy = "listener" => exitCode = 1)

\* the goroutine ended the process on a bind failure while the body ran
C4_Witness ==
  /\ addrBound
  /\ lerr = "bind"
  /\ exitedBy = "listener"
  /\ mainPc = "body"

\* C5: after a bind failure the process never terminates with an exit code
\* other than 1.
C5_BindFailureExitsOne == (lerr = "bind" /\ exited) => exitCode = 1

\* C6 as stated: Shutdown on a never-started server returns nil, and every
\* second call returns nil whatever the first call did.
C6_SecondShutdownSucceeds ==
  /\ (created = 0 => \A i \in DOMAIN shutdownRet : shutdownRet[i] = "nil")
  /\ \A i \in DOMAIN shutdownRet : i >= 2 => shutdownRet[i] = "nil"

\* C6 amended: Shutdown on a never-started server returns nil and leaves the
\* listener, the connections, the routes and the store as they were; a call
\* that follows a call that returned nil returns nil as well.
C6_ShutdownIdempotent ==
  /\ [](created = 0 => \A i \in DOMAIN shutdownRet : shutdownRet[i] = "nil")
  /\ [](\A i \in DOMAIN shutdownRet :
          (i >= 2 /\ shutdownRet[i - 1] = "nil") => shutdownRet[i] = "nil")
  /\ [][(created = 0 /\ mainPc \in { "postRun", "draining" })
          => UNCHANGED <<listening, active, routes, spawned, lpc, override>>]_vars

\* Shutdown was called twice on a server that was never started
C6_Witness == created = 0 /\ shutdownRet = <<"nil", "nil">>

\* the value three-tier precedence gives key k: the flag when given, else
\* the environment/config-file value, else the built-in default
Tier(k) ==
  IF k \in DOMAIN args THEN args[k]
  ELSE IF k \in DOMAIN env THEN env[k]
  ELSE DefaultValue(k)

\* C7: after resolve() every simple key it writes holds the value of
\* three-tier precedence.
C7_ThreeTierPrecedence ==
  configLoaded
    => \A k \in { TendermintNodeFlag, HomeFlag, metisChainIDFlag, logsTypeFlag } :
         StoreGet(k) = Tier(k)

\* C8: a non-empty value V supplied for bridge-db or bridge-sqlite-db is a
\* flag the command accepts, and after resolve() the store holds V under it.
C8_OverrideWins ==
  \A k \in { bridgeDBFlag, bridgeSqliteDBFlag } :
    (k \in DOMAIN args /\ mainPc \notin { "decorate", "parse" })
      => (args[k] # <<>>
            => /\ k \in registered
               /\ (configLoaded => StoreGet(k) = args[k]))

\* C9: after resolve(), a path key whose flag is empty or missing holds
\* filepath.Join of the stored home directory, "bridge" and the component.
C9_DefaultPaths ==
  configLoaded
    => /\ (GetString(bridgeDBFlag) = <<>>
             => StoreGet(bridgeDBFlag) =
                  FilepathJoin(<<StoreGet(HomeFlag), <<"bridge">>, <<"storage">>>>))
       /\ (GetString(bridgeSqliteDBFlag) = <<>>
             => StoreGet(bridgeSqliteDBFlag) =
                  FilepathJoin(<<StoreGet(HomeFlag), <<"bridge">>, <<"sqlite">>>>))

\* --home=/d and no bridge-db: the store holds /d/bridge/storage
C9_Witness ==
  /\ configLoaded
  /\ HomeFlag \in DOMAIN args
  /\ args[HomeFlag] = <<"/", "d">>
  /\ bridgeDBFlag \notin DOMAIN args
  /\ StoreGet(bridgeDBFlag) = <<"/", "d", "/", "bridge", "/", "storage">>
  /\ StoreGet(bridgeSqliteDBFlag) = <<"/", "d", "/", "bridge", "/", "sqlite">>

\* the keys of the configuration table
TableKeys ==
  { TendermintNodeFlag, HomeFlag, bridgeDBFlag, bridgeSqliteDBFlag,
    metisChainIDFlag, logsTypeFlag, metricsServerFlag, rpcServerFlag }

\* the value resolve() derives for key k from the flags
Derived(k) ==
  IF k = bridgeDBFlag /\ GetString(k) = <<>>
    THEN FilepathJoin(<<GetString(HomeFlag), <<"bridge">>, <<"storage">>>>)
  ELSE IF k = bridgeSqliteDBFlag /\ GetString(k) = <<>>
    THEN FilepathJoin(<<GetString(HomeFlag), <<"bridge">>, <<"sqlite">>>>)
  ELSE GetString(k)

\* C10 as stated: after resolve() every key of the configuration table has
\* an entry in the store holding the flag's current or derived value.
C10_EveryTableKeyStored ==
  configLoaded
    => \A k \in TableKeys : StoreHas(k) /\ StoreGet(k) = Derived(k)

\* C10 amended: after resolve() the store has an entry written by resolve()
\* for node, home, with-themis-config, bridge-db, bridge-sqlite-db,
\* metis-chain-id and logs-type, each holding the flag's current or derived
\* value, and resolve() has written none for metrics-server-addr and
\* rpc-server-addr.
C10_WrittenKeysStored ==
  configLoaded
    => /\ \A k \in { TendermintNodeFlag, HomeFlag, WithThemisConfigFlag,
                     bridgeDBFlag, bridgeSqliteDBFlag, metisChainIDFlag,
                     logsTypeFlag } :
            k \in DOMAIN override /\ StoreGet(k) = Derived(k)
       /\ \A k \in { metricsServerFlag, rpcServerFlag } :
            k \notin DOMAIN override

\* resolve() ran with logs-type and metrics-server-addr given as flags
C10_Witness ==
  /\ configLoaded
  /\ logsTypeFlag \in DOMAIN args
  /\ metricsServerFlag \in DOMAIN args

\* C11: a failure to load the node configuration file reaches the pre-run
\* hook as the error value initTendermintViperConfig returns.
C11_LoadFailurePropagated == loadRet = "err" => resolveRet = "err"

\* C12: once the post-run hook has returned, the result of Execute is the
\* result of its Shutdown call: nil when Shutdown returned nil, the error
\* when it timed out, although the body returned nil.
C12_PostRunReturnsShutdownResult ==
  (Len(shutdownRet) = 1 /\ mainPc \in { "return", "exited" })
    => /\ bodyRet = "nil"
       /\ execRet = IF shutdownRet[1] = "nil" THEN "nil" ELSE "err"

\* the body succeeded, Shutdown timed out and Execute returned the error
C12_Witness ==
  /\ mainPc = "return"
  /\ bodyRet = "nil"
  /\ shutdownRet = <<"timeout">>
  /\ execRet = "err"

\* C13: with the main thread scheduled, the pre-run hook always reaches the
\* body and a Shutdown that has begun always returns, whatever the listener
\* goroutine and the connections do.
C13_StartAndShutdownReturn ==
  /\ (mainPc = "preRun") ~> (mainPc = "body")
  /\ (mainPc = "draining") ~> (mainPc = "return" \/ exited)

\* Shutdown returned at its deadline with a connection still active
C13_Witness ==
  /\ mainPc = "return"
  /\ shutdownRet = <<"timeout">>
  /\ active > 0

\* C14: a call of resolve() that follows another leaves the store as it was.
C14_ResolveIdempotent ==
  [][(resolveCalls >= 1 /\ resolveCalls' = resolveCalls + 1)
       => override' = override]_vars

\* resolve() ran twice with --home given and the path flags left out
C14_Witness ==
  /\ resolveCalls = 2
  /\ HomeFlag \in DOMAIN args
  /\ bridgeDBFlag \notin DOMAIN args

\* C15: for a command that is not the version command, the metrics server
\* exists and its goroutine runs only after resolve() has written the store,
\* the body starts only after both, and resolve() runs once.
C15_ResolveBeforeStartBeforeBody ==
  /\ resolveCalls <= 1
  /\ (created > 0 \/ spawned > 0 \/ lpc # "none")
       => /\ configLoaded
          /\ { bridgeDBFlag, bridgeSqliteDBFlag } \subseteq DOMAIN override
  /\ (~SkipInit(cmdUse) /\ (mainPc \in { "body", "postRun", "draining" }
                            \/ bodyRet # "none"))
       => configLoaded /\ resolveCalls = 1 /\ created = 1 /\ spawned = 1

\* the body of a subcommand starts: the store is written, the server started
C15_Witness ==
  /\ cmdUse = OtherUse
  /\ mainPc = "body"
  /\ configLoaded
  /\ lpc = "spawned"

\* C16: no state of the supervisor is skipped: a server that is shutting down
\* or stopped has a listener goroutine that began to listen, Shutdown never
\* being applied while the goroutine is still starting.
C16_ShutdownFromRunningOnly == ~(inShutdown /\ lpc = "spawned")

\* C17: the server is constructed, the route registered and the goroutine
\* started at most once, and Shutdown is called at most once, after the body.
C17_CreatedAndShutDownOnce ==
  /\ created <= 1
  /\ routes <= 1
  /\ spawned <= 1
  /\ Len(shutdownRet) <= 1
  /\ (inShutdown => bodyRet = "nil")

\* the server was started once and shut down once
C17_Witness == created = 1 /\ routes = 1 /\ spawned = 1 /\ Len(shutdownRet) = 1

\* C18: once the post-run Shutdown has returned, the server holds no open
\* listener, also when the goroutine is scheduled only afterwards.
C18_NoListenAfterShutdown == shutdownRet # <<>> => ~listening

\* Shutdown returned before the goroutine ran, and the goroutine then ran
C18_Witness ==
  /\ shutdownRet # <<>>
  /\ active = 0
  /\ lpc = "returned"
  /\ lerr = "closed"
  /\ ~addrBound

\* C19: with BindPFlag errors for any of the bound flags, every flag is
\* still registered, every other flag still bound, each error logged, and
\* the command returned to its caller.
C19_BindErrorsDoNotAbort ==
  mainPc # "decorate"
    => /\ registered = DecoratedFlags
       /\ bound = BoundFlags \ bindFails
       /\ bindLogged = bindFails
       /\ (mainPc = "parse" => ~exited /\ execRet = "none")

\* the first BindPFlag failed, the last flag was still bound and the flags parsed
C19_Witness ==
  /\ TendermintNodeFlag \in bindFails
  /\ mainPc = "preRun"
  /\ metisChainIDFlag \in bound

====
